---- MODULE Spec2Model ----
(***************************************************************************)
(* Client-side results controller of Normate AI.                           *)
(*                                                                         *)
(*   - ResultsPage (results/[jobId]/page.tsx): React state, the polling    *)
(*     effect with its per-run closure (cancelled, timeout), fetchResults, *)
(*     the perspective visibility flags and the PDF export.                *)
(*   - lib/api.ts: getResults, pollForResults, chatWithAnalysis and the    *)
(*     history calls.                                                      *)
(*   - ChatSidebar (components): transcript, input, in-flight flag and the *)
(*     initial-question effect, opened from ResultsPage.                   *)
(*   - HistoryPage (history/page.tsx): load, delete and wipe.              *)
(*   - HomePage (app/page.tsx): the submit form and handleAnalyze.         *)
(*                                                                         *)
(* The backend is the environment: every request is answered by one of a   *)
(* small set of HTTP responses, or fails on the network.                   *)
(***************************************************************************)
EXTENDS Integers, Sequences, FiniteSets, TLC

\* ---------------------------------------------------------------- bounds
\* effect runs of the polling effect in one page life (mount + job changes)
MaxEffects == 2
\* status fetches one effect run may issue in the short page specification
MaxFetches == 2
\* suggested questions a payload may carry
MaxQuestions == 1
\* largest captured image height, in pixels
MaxImgHeight == 1400
\* longest chat transcript: the intro and two questions with their replies
MaxTranscript == 5
\* submitAnalysis calls one visit of the home page may issue
MaxSubmits == 2

\* ------------------------------------------------------ program constants
\* pollForResults: default maxAttempts
MaxAttempts == 60
\* handleExportPDF: margin in mm
margin == 10
\* jsPDF a4 portrait page, in mm
pdfWidth == 210
pdfHeight == 297
\* canSubmit: researchQuestion.trim().length > 10, productDescription.trim().length > 5
MinQuestionLength == 10
MinDescriptionLength == 5

JobIds == {"jobA", "jobB"}
Perspectives == {"pm", "cfo", "designer"}

\* an optional value: the empty sequence (undefined) or a one-element sequence
None == << >>
Some(v) == << v >>
IsSome(o) == Len(o) = 1
TheValue(o) == o[1]

\* ------------------------------------------------------------- responses
StillProcessingDetail == "Analysis still processing"
DefaultFetchMessage == "Failed to fetch results"
NetworkMessage == "Failed to fetch"

QuestionNames == <<"q1", "q2", "q3", "q4">>
QuestionLists == {[i \in 1..n |-> QuestionNames[i]] : n \in 0..MaxQuestions}

\* the JSON body of a response; status "undefined" is a body without a status
\* field (an error body that carries only detail)
Body(st, det, fin, sq) ==
    [status |-> st, detail |-> det, financialImpact |-> fin, suggestedQuestions |-> sq]

CompletedBodies ==
    {Body("completed", "", fin, sq) :
        fin \in {None, Some("impact")},
        sq \in {None} \cup {Some(q) : q \in QuestionLists}}

StatusBodies == {Body(st, "", None, None) : st \in {"failed", "pending", "processing"}}

DetailBodies == {Body("undefined", det, None, None) : det \in {"", StillProcessingDetail}}

\* what the network gives back for one fetch of /api/results/{jobId}
Responses ==
    {[kind |-> "network", code |-> 0, body |-> Body("undefined", "", None, None)]}
    \cup {[kind |-> "http", code |-> 200, body |-> b] : b \in CompletedBodies \cup StatusBodies}
    \cup {[kind |-> "http", code |-> c, body |-> b] : c \in {202, 404, 500}, b \in DetailBodies}

\* Response.ok
ResOk(resp) == resp.code >= 200 /\ resp.code <= 299

\* getResults: a returned AnalysisResult or a thrown error
Returned(jid, b) ==
    [tag |-> "return", apiError |-> FALSE, errStatus |-> 0, message |-> "",
     data |-> [jobId |-> jid, status |-> b.status,
               financialImpact |-> b.financialImpact,
               suggestedQuestions |-> b.suggestedQuestions]]

NoData == [jobId |-> "", status |-> "undefined",
           financialImpact |-> None, suggestedQuestions |-> None]

Thrown(isApi, st, msg) ==
    [tag |-> "throw", apiError |-> isApi, errStatus |-> st, message |-> msg, data |-> NoData]

getResults(jid, resp) ==
    IF resp.kind = "network" THEN Thrown(FALSE, 0, NetworkMessage)
    ELSE IF ~ResOk(resp)
         THEN Thrown(TRUE, resp.code,
                     IF resp.body.detail # "" THEN resp.body.detail ELSE DefaultFetchMessage)
         ELSE Returned(jid, resp.body)

\* err.message.includes("still processing")
IncludesStillProcessing(msg) == msg = StillProcessingDetail

NoResult == None
NoError == None

\* ------------------------------------------------------------ page state
VARIABLES
    jobId,        \* params.jobId
    state,        \* PageState
    result,       \* AnalysisResult | null, as an optional
    error,        \* string | null, as an optional
    pollCount,
    perspective,
    mounted,      \* the component is mounted; React drops updates after unmount
    effects,      \* one record per run of the polling effect (its closure)
    cur,          \* number of effect runs so far; the live run is effects[cur]
    settled,      \* the fetch that settled last: the effect run and its outcome
    \* pollForResults (lib/api.ts), one call
    pfrPc,        \* "idle", "fetching", "sleeping", "returned", "thrown"
    attempt,      \* the loop variable
    pfrFetches,   \* getResults calls issued by this call
    pfrProgress,  \* onProgress calls made by this call
    pfrValue,     \* the AnalysisResult the promise resolved to, as an optional
    pfrError,     \* the error the promise rejected with, as an optional
    pfrLast,      \* how the last getResults of this call settled
    \* handleExportPDF
    isExporting,
    exportPc,     \* "idle", "settling", "compose", "loop"
    imgProps,     \* pdf.getImageProperties(imgData): width and height in pixels
    heightLeft,   \* in units of 1/imgProps.width mm
    position,     \* in units of 1/imgProps.width mm
    pdfPages,     \* the position of the image on each page added so far
    saved,        \* pdf.save was called by the last export
    alerted,      \* alert(...) was raised by the last export
    \* the chat: chatOpen and chatInitialQuestion of ResultsPage, the rest ChatSidebar
    chatOpen,
    chatInitialQuestion,  \* string | undefined, as an optional
    messages,
    input,
    loading,
    hasHandledInitial,    \* hasHandledInitial.current
    chatPending,          \* the questions of the chatWithAnalysis calls not yet settled
    lastSend,             \* the last call of sendMessage: its text, caller and fate
    lastReply,            \* how the last chatWithAnalysis call settled
    initialSends,         \* requests issued for an initial question by this ChatSidebar
    opened,               \* how the chat was opened last, and the requests issued for
                          \* the initial question of that opening
    \* HistoryPage (history/page.tsx) and the history store behind the API
    hJobs,            \* jobs: the job ids listed
    hLoading,         \* loading
    showWipeConfirm,
    deleting,         \* string | null, as an optional
    hStarted,         \* the mount effect has run
    hPending,         \* the history requests not yet settled
    hServer,          \* the job ids the backend stores
    hLast,            \* the history request that settled last, as an optional
    consoleErrors,    \* what console.error has logged
    \* HomePage (app/page.tsx): the submit form
    quantFiles,           \* quantFiles.length
    qualFiles,            \* qualFiles.length
    researchQuestion,     \* context.researchQuestion
    productDescription,   \* context.productDescription
    submitState,          \* "idle", "submitting", "success", "error"
    errorMsg,             \* string | null, as an optional
    submitPending,        \* submitAnalysis calls not yet settled
    submitRequests,       \* submitAnalysis calls issued so far
    jobsCreated,          \* jobs the backend has created for this page
    navTimers,            \* pending setTimeout(router.push, 800)
    navigated,            \* router.push has run
    lastAnalyze           \* the last call of handleAnalyze, as an optional

pageVars == <<jobId, state, result, error, pollCount, perspective, mounted, effects, cur, settled>>

pollerVars == <<pfrPc, attempt, pfrFetches, pfrProgress, pfrValue, pfrError, pfrLast>>

exportVars == <<isExporting, exportPc, imgProps, heightLeft, position, pdfPages, saved, alerted>>

chatVars == <<chatOpen, chatInitialQuestion, messages, input, loading, hasHandledInitial,
              chatPending, lastSend, lastReply, initialSends, opened>>

historyVars == <<hJobs, hLoading, showWipeConfirm, deleting, hStarted, hPending, hServer,
                 hLast, consoleErrors>>

formVars == <<quantFiles, qualFiles, researchQuestion, productDescription>>

submitVars == <<submitState, errorMsg, submitPending, submitRequests, jobsCreated, navTimers,
                navigated, lastAnalyze>>

vars == <<pageVars, pollerVars, exportVars, chatVars, historyVars, formVars, submitVars>>

\* the closure of one run of the polling effect
\*   pc: "none" not run yet, "fetching" awaiting getResults, "timer" waiting on
\*       setTimeout(poll, 2000), "stopped" nothing pending
\*   fetches: the fetches this run has issued
\* the outcome of a settled fetch: for a returned body its status, for a thrown
\* error "transient" (the page treats it as not ready) or "fatal"
OutcomeTag(out) ==
    IF out.tag = "return" THEN out.data.status
    ELSE IF IncludesStillProcessing(out.message) THEN "transient" ELSE "fatal"

NoOutcome == "none"

FreshEffect ==
    [jobId |-> "", cancelled |-> FALSE, pc |-> "none", fetches |-> 0]

PollerIdle ==
    /\ pfrPc = "idle"
    /\ attempt = 0
    /\ pfrFetches = 0
    /\ pfrProgress = 0
    /\ pfrValue = None
    /\ pfrError = None
    /\ pfrLast = "none"

NoImage == [width |-> 0, height |-> 0]

ExportIdle ==
    /\ isExporting = FALSE
    /\ exportPc = "idle"
    /\ imgProps = NoImage
    /\ heightLeft = 0
    /\ position = 0
    /\ pdfPages = << >>
    /\ saved = FALSE
    /\ alerted = FALSE

\* the chat after construction: closed, the transcript holding the intro
IntroMessage == [role |-> "assistant", content |-> "I can help you explore this analysis further."]

ChatIdle ==
    /\ chatOpen = FALSE
    /\ chatInitialQuestion = None
    /\ messages = << IntroMessage >>
    /\ input = ""
    /\ loading = FALSE
    /\ hasHandledInitial = FALSE
    /\ chatPending = << >>
    /\ lastSend = None
    /\ lastReply = "none"
    /\ initialSends = 0
    /\ opened = [by |-> "none", sends |-> 0]

\* HistoryPage after construction, before its mount effect
HistoryPageFresh ==
    /\ hJobs = {}
    /\ hLoading = TRUE
    /\ showWipeConfirm = FALSE
    /\ deleting = None
    /\ hStarted = FALSE
    /\ hPending = {}
    /\ hLast = None
    /\ consoleErrors = {}

HistoryIdle == HistoryPageFresh /\ hServer = {}

\* a text field: core characters with pad spaces around them
Text(core, pad) == [core |-> core, pad |-> pad]

\* HomePage after construction
SubmitIdle ==
    /\ quantFiles = 0
    /\ qualFiles = 0
    /\ researchQuestion = Text(0, 0)
    /\ productDescription = Text(0, 0)
    /\ submitState = "idle"
    /\ errorMsg = None
    /\ submitPending = 0
    /\ submitRequests = 0
    /\ jobsCreated = 0
    /\ navTimers = 0
    /\ navigated = FALSE
    /\ lastAnalyze = None

PageMounted ==
    /\ jobId = "jobA"
    /\ state = "loading"
    /\ result = NoResult
    /\ error = NoError
    /\ pollCount = 0
    /\ perspective = "pm"
    /\ mounted = TRUE
    /\ effects = [i \in 1..(MaxEffects + 1) |-> FreshEffect]
    /\ cur = 0
    /\ settled = [effect |-> 0, outcome |-> NoOutcome, data |-> NoData]

PageInit == PageMounted /\ PollerIdle /\ ExportIdle /\ ChatIdle /\ HistoryIdle /\ SubmitIdle

\* fetchResults without the "return true" of the completed branch
fetchResultsDoneFallsThrough(out) ==
    out.tag = "throw" /\ ~IncludesStillProcessing(out.message)

\* fetchResults: the state updates it makes and the value it resolves to
fetchResultsDone(out) ==
    IF out.tag = "return"
    THEN out.data.status = "completed"
    ELSE ~IncludesStillProcessing(out.message)

\* a catch block that treats the not-ready error like every other error
fetchResultsStateNoTransient(out, old) ==
    IF out.tag = "return"
    THEN IF out.data.status = "completed" THEN "ready" ELSE old
    ELSE "error"

fetchResultsState(out, old) ==
    IF out.tag = "return"
    THEN IF out.data.status = "completed" THEN "ready" ELSE old
    ELSE IF IncludesStillProcessing(out.message) THEN old ELSE "error"

fetchResultsResult(out, old) ==
    IF out.tag = "return" /\ out.data.status = "completed" THEN Some(out.data) ELSE old

fetchResultsError(out, old) ==
    IF out.tag = "throw" /\ ~IncludesStillProcessing(out.message)
    THEN Some(out.message)
    ELSE old

\* the effect body: a new closure, then poll() which issues the first fetch
StartedEffect(jid) ==
    [jobId |-> jid, cancelled |-> FALSE, pc |-> "fetching", fetches |-> 1]

\* the effect cleanup: cancelled = true; clearTimeout(timeout)
CleanedUp(e) ==
    [e EXCEPT !.cancelled = TRUE,
              !.pc = IF e.pc = "timer" THEN "stopped" ELSE e.pc]

\* first run of the effect after mount
MountEffect ==
    /\ mounted /\ cur = 0
    /\ cur' = 1
    /\ effects' = [effects EXCEPT ![1] = StartedEffect(jobId)]
    /\ UNCHANGED <<jobId, state, result, error, pollCount, perspective, mounted, settled>>
    /\ UNCHANGED <<pollerVars, exportVars, chatVars, historyVars, formVars, submitVars>>

\* the awaited getResults settles: fetchResults finishes, then poll continues
FetchResolve(i, resp) ==
    LET e == effects[i]
        out == getResults(e.jobId, resp)
        done == fetchResultsDone(out)
        again == ~done /\ ~e.cancelled
    IN /\ e.pc = "fetching"
       /\ effects' = [effects EXCEPT ![i] =
                        [e EXCEPT !.pc = IF again THEN "timer" ELSE "stopped"]]
       /\ settled' = [effect |-> i, outcome |-> OutcomeTag(out), data |-> out.data]
       /\ IF mounted
          THEN /\ state' = fetchResultsState(out, state)
               /\ result' = fetchResultsResult(out, result)
               /\ error' = fetchResultsError(out, error)
               /\ pollCount' = IF again THEN pollCount + 1 ELSE pollCount
          ELSE UNCHANGED <<state, result, error, pollCount>>
       /\ UNCHANGED <<jobId, perspective, mounted, cur>>
       /\ UNCHANGED <<pollerVars, exportVars, chatVars, historyVars, formVars, submitVars>>

\* setTimeout(poll, 2000) fires: poll() issues the next fetch
TimerFire(i, cap) ==
    LET e == effects[i]
    IN /\ e.pc = "timer"
       /\ e.fetches < cap
       /\ effects' = [effects EXCEPT ![i] =
                        IF e.cancelled
                        THEN [e EXCEPT !.pc = "stopped"]
                        ELSE [e EXCEPT !.pc = "fetching", !.fetches = e.fetches + 1]]
       /\ UNCHANGED <<jobId, state, result, error, pollCount, perspective, mounted, cur, settled>>
       /\ UNCHANGED <<pollerVars, exportVars, chatVars, historyVars, formVars, submitVars>>

\* params.jobId changes: fetchResults changes, the effect is cleaned up and re-run
ChangeJob(j, maxEffects) ==
    /\ mounted /\ cur >= 1 /\ cur < maxEffects
    /\ j # jobId
    /\ jobId' = j
    /\ cur' = cur + 1
    /\ effects' = [effects EXCEPT ![cur] = CleanedUp(effects[cur]),
                                  ![cur + 1] = StartedEffect(j)]
    /\ UNCHANGED <<state, result, error, pollCount, perspective, mounted, settled>>
    /\ UNCHANGED <<pollerVars, exportVars, chatVars, historyVars, formVars, submitVars>>

\* the page unmounts (navigation away): the cleanup runs
Unmount ==
    /\ mounted /\ cur >= 1
    /\ mounted' = FALSE
    /\ effects' = [effects EXCEPT ![cur] = CleanedUp(effects[cur])]
    /\ UNCHANGED <<jobId, state, result, error, pollCount, perspective, cur, settled>>
    /\ UNCHANGED <<pollerVars, exportVars, chatVars, historyVars, formVars, submitVars>>

\* a toggle whose change re-creates fetchResults, so that the effect re-runs
SetPerspectiveRefetches(p) ==
    /\ mounted /\ state = "ready" /\ IsSome(result)
    /\ p # perspective
    /\ perspective' = p
    /\ effects' = [effects EXCEPT ![cur] = StartedEffect(jobId)]
    /\ UNCHANGED <<jobId, state, result, error, pollCount, mounted, cur, settled>>
    /\ UNCHANGED <<pollerVars, exportVars, chatVars, historyVars, formVars, submitVars>>

\* PerspectiveToggle onChange; the toggle is rendered only with a ready result
SetPerspective(p) ==
    /\ mounted /\ state = "ready" /\ IsSome(result)
    /\ p # perspective
    /\ perspective' = p
    /\ UNCHANGED <<jobId, state, result, error, pollCount, mounted, effects, cur, settled>>
    /\ UNCHANGED <<pollerVars, exportVars, chatVars, historyVars, formVars, submitVars>>

EffectIds == 1..(MaxEffects + 1)

\* the responses that differ for polling: the suggested questions of a completed
\* result play no part in it
PollingResponses == {resp \in Responses : resp.body.suggestedQuestions = None}

\* the page across job changes: up to MaxEffects observations, each cut short
\* after MaxFetches fetches
PageNext ==
    \/ MountEffect
    \/ \E i \in EffectIds, resp \in PollingResponses : FetchResolve(i, resp)
    \/ \E i \in EffectIds : TimerFire(i, MaxFetches)
    \/ \E j \in JobIds : ChangeJob(j, MaxEffects)
    \/ Unmount

SpecPage == PageInit /\ [][PageNext]_vars

\* the answers of a job that is slow and then done
SlowResponses ==
    {[kind |-> "http", code |-> 200, body |-> Body(st, "", None, None)] :
        st \in {"processing", "completed"}}

\* the page switched from one job to another and back: one observation more
\* than in SpecPage, slow answers only
SwitchBackNext ==
    \/ MountEffect
    \/ \E i \in EffectIds, resp \in SlowResponses : FetchResolve(i, resp)
    \/ \E i \in EffectIds : TimerFire(i, MaxFetches)
    \/ \E j \in JobIds : ChangeJob(j, MaxEffects + 1)

SpecSwitchBack == PageInit /\ [][SwitchBackNext]_vars

\* the page viewing one job: a single observation followed past the retry
\* budget of pollForResults (MaxAttempts + 1 fetches), every payload, and the
\* perspective toggle
OneJobNext ==
    \/ MountEffect
    \/ \E resp \in Responses : FetchResolve(1, resp)
    \/ TimerFire(1, MaxAttempts + 1)
    \/ Unmount
    \/ \E p \in Perspectives : SetPerspective(p)

SpecOneJob == PageInit /\ [][OneJobNext]_vars

\* ------------------------------------------- perspective visibility flags
\* each flag takes the result state (an optional) and the perspective

\* the flag without the presence test on result.financialImpact
showFinancialAnyPayload(res, p) == IsSome(res) /\ p \in {"cfo", "pm"}

showFinancial(res, p) ==
    /\ IsSome(res)
    /\ IsSome(TheValue(res).financialImpact)
    /\ (p = "cfo" \/ p = "pm")

showABTests(p) == p = "pm" \/ p = "designer"

showMetrics(p) == p = "pm" \/ p = "cfo"

showQuantEvidence(p) == p = "pm" \/ p = "cfo"

\* the flag with cfo in the place of designer
showQualEvidenceForCfo(p) == p = "pm" \/ p = "cfo"

showQualEvidence(p) == p = "pm" \/ p = "designer"

\* the flag without the length test
showRecommendedQuestionsAnyList(res) ==
    IsSome(res) /\ IsSome(TheValue(res).suggestedQuestions)

showRecommendedQuestions(res) ==
    /\ IsSome(res)
    /\ IsSome(TheValue(res).suggestedQuestions)
    /\ Len(TheValue(TheValue(res).suggestedQuestions)) > 0

\* the RecommendedQuestions component renders nothing for a missing or empty list
RecommendedQuestionsRenders(questions) ==
    IsSome(questions) /\ Len(TheValue(questions)) # 0

When(cond, section) == IF cond THEN << section >> ELSE << >>

\* the cards inside results-container, in document order; nothing unless the
\* phase is ready and a result is stored
Report(st, res, p) ==
    IF st = "ready" /\ IsSome(res)
    THEN << "ProblemSummary" >>
         \o When(showFinancial(res, p), "FinancialImpact")
         \o When(showQuantEvidence(p), "QuantEvidence")
         \o When(showQualEvidence(p), "QualEvidence")
         \o << "Actions" >>
         \o When(showABTests(p), "ABTests")
         \o When(showMetrics(p), "Metrics")
         \o When(showRecommendedQuestions(res)
                    /\ RecommendedQuestionsRenders(TheValue(res).suggestedQuestions),
                 "RecommendedQuestions")
    ELSE << >>

Sections(st, res, p) == {Report(st, res, p)[k] : k \in 1..Len(Report(st, res, p))}

\* ------------------------------------------------ pollForResults (lib/api.ts)
FailedMessage == "Analysis failed on the server."
TimedOutMessage == "Analysis timed out. Please try again."

ErrorOf(isApi, st, msg) == [apiError |-> isApi, status |-> st, message |-> msg]

\* the catch clause: err instanceof ApiError && err.status !== 202 rethrows
Rethrown(err) == err.apiError /\ err.status # 202

\* what one pass through the try block raises, if anything: the error thrown by
\* getResults, or the ApiError thrown for a failed status
RaisedInTry(out) ==
    IF out.tag = "throw" THEN Some(ErrorOf(out.apiError, out.errStatus, out.message))
    ELSE IF out.data.status = "failed" THEN Some(ErrorOf(TRUE, 500, FailedMessage))
    ELSE None

\* how a getResults call settled: the status of the returned body, or the kind
\* of the thrown error
SettledAs(out) ==
    IF out.tag = "return" THEN out.data.status
    ELSE IF ~out.apiError THEN "network"
    ELSE IF out.errStatus = 202 THEN "api202" ELSE "apiError"

\* pollForResults(jobId) is called: attempt = 0, the first getResults is issued
PollStart ==
    /\ pfrPc = "idle"
    /\ attempt' = 0
    /\ IF 0 < MaxAttempts
       THEN /\ pfrPc' = "fetching"
            /\ pfrFetches' = pfrFetches + 1
            /\ pfrError' = pfrError
       ELSE /\ pfrPc' = "thrown"
            /\ pfrFetches' = pfrFetches
            /\ pfrError' = Some(ErrorOf(TRUE, 408, TimedOutMessage))
    /\ UNCHANGED <<pfrProgress, pfrValue, pfrLast>>
    /\ UNCHANGED <<pageVars, exportVars, chatVars, historyVars, formVars, submitVars>>

\* the awaited getResults settles: the rest of the try block and the catch
PollSettle(resp) ==
    LET out == getResults(jobId, resp)
        raised == RaisedInTry(out)
    IN /\ pfrPc = "fetching"
       /\ IF out.tag = "return" /\ out.data.status = "completed"
          THEN /\ pfrPc' = "returned"
               /\ pfrValue' = Some(out.data)
               /\ UNCHANGED <<pfrError, pfrProgress>>
          ELSE IF IsSome(raised)
          THEN IF Rethrown(TheValue(raised))
               THEN /\ pfrPc' = "thrown"
                    /\ pfrError' = raised
                    /\ UNCHANGED <<pfrValue, pfrProgress>>
               ELSE /\ pfrPc' = "sleeping"
                    /\ UNCHANGED <<pfrValue, pfrError, pfrProgress>>
          ELSE /\ pfrPc' = "sleeping"
               /\ pfrProgress' = pfrProgress + 1
               /\ UNCHANGED <<pfrValue, pfrError>>
       /\ pfrLast' = SettledAs(out)
       /\ UNCHANGED <<attempt, pfrFetches>>
       /\ UNCHANGED <<pageVars, exportVars, chatVars, historyVars, formVars, submitVars>>

\* the interval timer resolves: attempt++, the loop test, then the next getResults
\* or the throw after the loop
PollWake ==
    /\ pfrPc = "sleeping"
    /\ attempt' = attempt + 1
    /\ IF attempt + 1 < MaxAttempts
       THEN /\ pfrPc' = "fetching"
            /\ pfrFetches' = pfrFetches + 1
            /\ pfrError' = pfrError
       ELSE /\ pfrPc' = "thrown"
            /\ pfrFetches' = pfrFetches
            /\ pfrError' = Some(ErrorOf(TRUE, 408, TimedOutMessage))
    /\ UNCHANGED <<pfrProgress, pfrValue, pfrLast>>
    /\ UNCHANGED <<pageVars, exportVars, chatVars, historyVars, formVars, submitVars>>

PollerNext ==
    \/ PollStart
    \/ \E resp \in Responses : PollSettle(resp)
    \/ PollWake

SpecPoller == PageInit /\ [][PollerNext]_vars

\* ------------------------------------------------------- handleExportPDF
\* Lengths are millimetres in the code. imgRenderHeight is the quotient
\* imgProps.height * contentWidth / imgProps.width, so the model keeps every
\* length multiplied by imgProps.width and the arithmetic stays exact.
contentWidth == pdfWidth - (margin * 2)

InUnits(mm, props) == mm * props.width

imgRenderHeight(props) == props.height * contentWidth

\* canvas widths the capture may give: they make whole and half millimetres
ImgWidths == {contentWidth, 2 * contentWidth}
ImgHeights == 1..MaxImgHeight

\* heightLeft after page 1, reduced by the whole page height
AfterFirstPageWholePage(props) == imgRenderHeight(props) - InUnits(pdfHeight, props)

\* heightLeft after page 1: heightLeft -= (pdfHeight - margin * 2)
AfterFirstPage(props) == imgRenderHeight(props) - InUnits(pdfHeight - margin * 2, props)

\* the loop test written as heightLeft >= 0
MorePagesOrEqual(left) == left >= 0

\* the loop test: while (heightLeft > 0)
MorePages(left) == left > 0

\* position = heightLeft - imgRenderHeight + margin
NextPosition(left, props) == left - imgRenderHeight(props) + InUnits(margin, props)

\* the page in phase ready, as left by the first fetch returning a completed
\* result whose suggestedQuestions is sq
PageReadyWith(sq) ==
    /\ jobId = "jobA"
    /\ state = "ready"
    /\ result = Some([jobId |-> "jobA", status |-> "completed",
                      financialImpact |-> Some("impact"), suggestedQuestions |-> sq])
    /\ error = NoError
    /\ pollCount = 0
    /\ perspective = "pm"
    /\ mounted = TRUE
    /\ effects = [i \in 1..(MaxEffects + 1) |->
                    IF i = 1
                    THEN [jobId |-> "jobA", cancelled |-> FALSE, pc |-> "stopped", fetches |-> 1]
                    ELSE FreshEffect]
    /\ cur = 1
    /\ settled = [effect |-> 1, outcome |-> "completed", data |-> TheValue(result)]

PageReady == PageReadyWith(None)

\* the Export PDF button: rendered in phase ready, disabled while exporting
handleExportPDF ==
    /\ mounted /\ state = "ready" /\ IsSome(result)
    /\ ~isExporting /\ exportPc = "idle"
    /\ isExporting' = TRUE
    /\ exportPc' = "settling"
    /\ imgProps' = NoImage
    /\ heightLeft' = 0
    /\ position' = 0
    /\ pdfPages' = << >>
    /\ saved' = FALSE
    /\ alerted' = FALSE
    /\ UNCHANGED <<pageVars, pollerVars, chatVars, historyVars, formVars, submitVars>>

\* after the settle delay html2canvas resolves; toDataURL, new jsPDF and
\* getImageProperties follow
ExportCapture(w, h) ==
    /\ exportPc = "settling"
    /\ imgProps' = [width |-> w, height |-> h]
    /\ exportPc' = "compose"
    /\ UNCHANGED <<isExporting, heightLeft, position, pdfPages, saved, alerted>>
    /\ UNCHANGED <<pageVars, pollerVars, chatVars, historyVars, formVars, submitVars>>

\* page 1: the image at the top margin
ExportFirstPage ==
    /\ exportPc = "compose"
    /\ position' = InUnits(margin, imgProps)
    /\ pdfPages' = << InUnits(margin, imgProps) >>
    /\ heightLeft' = AfterFirstPage(imgProps)
    /\ exportPc' = "loop"
    /\ UNCHANGED <<isExporting, imgProps, saved, alerted>>
    /\ UNCHANGED <<pageVars, pollerVars, chatVars, historyVars, formVars, submitVars>>

\* one iteration of the while loop
ExportAddPage ==
    /\ exportPc = "loop"
    /\ MorePages(heightLeft)
    /\ position' = NextPosition(heightLeft, imgProps)
    /\ pdfPages' = Append(pdfPages, NextPosition(heightLeft, imgProps))
    /\ heightLeft' = heightLeft - InUnits(pdfHeight, imgProps)
    /\ UNCHANGED <<isExporting, exportPc, imgProps, saved, alerted>>
    /\ UNCHANGED <<pageVars, pollerVars, chatVars, historyVars, formVars, submitVars>>

\* the loop is left: pdf.save, then the finally block
ExportSave ==
    /\ exportPc = "loop"
    /\ ~MorePages(heightLeft)
    /\ saved' = TRUE
    /\ isExporting' = FALSE
    /\ exportPc' = "idle"
    /\ UNCHANGED <<imgProps, heightLeft, position, pdfPages, alerted>>
    /\ UNCHANGED <<pageVars, pollerVars, chatVars, historyVars, formVars, submitVars>>

\* the catch block without the finally block: the exporting flag stays set
ExportThrowsNoFinally ==
    /\ exportPc \in {"settling", "compose", "loop"}
    /\ alerted' = TRUE
    /\ exportPc' = "idle"
    /\ UNCHANGED <<isExporting, imgProps, heightLeft, position, pdfPages, saved>>
    /\ UNCHANGED <<pageVars, pollerVars, chatVars, historyVars, formVars, submitVars>>

\* a catch block that also puts the page into the error phase
ExportThrowsToErrorPhase ==
    /\ exportPc \in {"settling", "compose", "loop"}
    /\ alerted' = TRUE
    /\ isExporting' = FALSE
    /\ exportPc' = "idle"
    /\ state' = "error"
    /\ error' = Some("Failed to generate PDF")
    /\ UNCHANGED <<imgProps, heightLeft, position, pdfPages, saved>>
    /\ UNCHANGED <<jobId, result, pollCount, perspective, mounted, effects, cur, settled>>
    /\ UNCHANGED <<pollerVars, chatVars, historyVars, formVars, submitVars>>

\* capture or page composition throws: the catch block alerts, then finally
ExportThrows ==
    /\ exportPc \in {"settling", "compose", "loop"}
    /\ alerted' = TRUE
    /\ isExporting' = FALSE
    /\ exportPc' = "idle"
    /\ UNCHANGED <<imgProps, heightLeft, position, pdfPages, saved>>
    /\ UNCHANGED <<pageVars, pollerVars, chatVars, historyVars, formVars, submitVars>>

ExportInit ==
    PageReady /\ PollerIdle /\ ExportIdle /\ ChatIdle /\ HistoryIdle /\ SubmitIdle

ExportNext ==
    \/ handleExportPDF
    \/ \E w \in ImgWidths, h \in ImgHeights : ExportCapture(w, h)
    \/ ExportFirstPage
    \/ ExportAddPage
    \/ ExportSave
    \/ ExportThrows

SpecExport == ExportInit /\ [][ExportNext]_vars

\* ------------------------------------------------------------------ chat
\* ChatSidebar is rendered inside the ready phase of ResultsPage and stays
\* mounted while the sidebar is closed: closing only sets isOpen to false.
FallbackContent == "Sorry, I couldn't process that request. Please try again in a moment."
ChatFailedMessage == "Chat request failed"

\* what the user may have typed into the input
Texts == {"", " ", "hi", " hi "}

\* String.prototype.trim on those texts and on the suggested questions
trim(t) == CASE t = " " -> "" [] t = " hi " -> "hi" [] OTHER -> t

\* what the network gives back for one POST /api/chat
ChatResponses ==
    {[kind |-> "network", code |-> 0, message |-> ""],
     [kind |-> "http", code |-> 500, message |-> ""],
     [kind |-> "http", code |-> 200, message |-> "answer"]}

\* chatWithAnalysis: the returned ChatResponse or a thrown error
chatWithAnalysis(resp) ==
    IF resp.kind = "network" THEN [tag |-> "throw", message |-> NetworkMessage]
    ELSE IF ~ResOk(resp) THEN [tag |-> "throw", message |-> ChatFailedMessage]
         ELSE [tag |-> "return", message |-> resp.message]

\* the guard of sendMessage without the trim test
sendRejectedOnlyLoading(text, ld) == ld

\* the guard of sendMessage without the loading test
sendRejectedOnlyBlank(text, ld) == trim(text) = ""

\* if (!text.trim() || loading) return;
sendRejected(text, ld) == trim(text) = "" \/ ld

\* setMessages(() => [userMessage]): the transcript replaced, not extended
WithUserMessageOnly(m, text) == << [role |-> "user", content |-> text] >>

\* setMessages((m) => [...m, userMessage])
WithUserMessage(m, text) == Append(m, [role |-> "user", content |-> text])

\* a catch block that swallows the error without a message
WithReplySilentCatch(m, out) ==
    IF out.tag = "return" THEN Append(m, [role |-> "assistant", content |-> out.message])
    ELSE m

\* a catch block that appends the fallback after an apology of its own
WithReplyTwoOnFailure(m, out) ==
    IF out.tag = "return" THEN Append(m, [role |-> "assistant", content |-> out.message])
    ELSE Append(Append(m, [role |-> "assistant", content |-> out.message]),
                [role |-> "assistant", content |-> FallbackContent])

\* the try block appends response.message, the catch block the fixed fallback
WithReply(m, out) ==
    Append(m, [role |-> "assistant",
               content |-> IF out.tag = "return" THEN out.message ELSE FallbackContent])

\* the condition of the initial-question effect without the ref
initialEffectFiresEveryTime(iq, open, handled) == IsSome(iq) /\ TheValue(iq) # "" /\ open

\* if (initialQuestion && isOpen && !hasHandledInitial.current)
initialEffectFires(iq, open, handled) ==
    IsSome(iq) /\ TheValue(iq) # "" /\ open /\ ~handled

\* the effect, evaluated with these props, issues a request
initialRequests(iq, open) ==
    IF initialEffectFires(iq, open, hasHandledInitial) /\ ~sendRejected(TheValue(iq), loading)
    THEN 1 ELSE 0

\* sendMessage(text), up to the await
sendMessage(text, from) ==
    /\ lastSend' = Some([text |-> text, from |-> from,
                         accepted |-> ~sendRejected(text, loading)])
    /\ IF sendRejected(text, loading)
       THEN UNCHANGED <<messages, input, loading, chatPending>>
       ELSE /\ messages' = WithUserMessage(messages, text)
            /\ input' = ""
            /\ loading' = TRUE
            /\ chatPending' = Append(chatPending, text)

\* the initial-question effect, evaluated after a render with these props
runInitialEffect(iq, open) ==
    /\ initialSends' = initialSends + initialRequests(iq, open)
    /\ IF initialEffectFires(iq, open, hasHandledInitial)
       THEN /\ hasHandledInitial' = TRUE
            /\ sendMessage(TheValue(iq), "initial")
       ELSE UNCHANGED <<hasHandledInitial, messages, input, loading, chatPending, lastSend>>

\* ChatSidebar and the controls that open it are rendered
ChatRendered == mounted /\ state = "ready" /\ IsSome(result)

\* the transcript has room for one more question and its reply
RoomInTranscript == Len(messages) + 2 <= MaxTranscript

\* a suggested question is clicked; the open sidebar's backdrop covers the page,
\* so the click needs a closed chat. The effect runs after the render.
handleQuestionClick(q) ==
    /\ ChatRendered /\ ~chatOpen /\ RoomInTranscript
    /\ showRecommendedQuestions(result)
    /\ \E k \in 1..Len(TheValue(TheValue(result).suggestedQuestions)) :
          TheValue(TheValue(result).suggestedQuestions)[k] = q
    /\ chatInitialQuestion' = Some(q)
    /\ chatOpen' = TRUE
    /\ runInitialEffect(Some(q), TRUE)
    /\ opened' = [by |-> "question", sends |-> initialRequests(Some(q), TRUE)]
    /\ UNCHANGED lastReply
    /\ UNCHANGED <<pageVars, pollerVars, exportVars, historyVars, formVars, submitVars>>

\* the floating chat button
OpenChatButton ==
    /\ ChatRendered /\ ~chatOpen
    /\ chatInitialQuestion' = None
    /\ chatOpen' = TRUE
    /\ runInitialEffect(None, TRUE)
    /\ opened' = [by |-> "button", sends |-> 0]
    /\ UNCHANGED lastReply
    /\ UNCHANGED <<pageVars, pollerVars, exportVars, historyVars, formVars, submitVars>>

\* onClose: the X button or the backdrop
CloseChat ==
    /\ ChatRendered /\ chatOpen
    /\ chatOpen' = FALSE
    /\ runInitialEffect(chatInitialQuestion, FALSE)
    /\ UNCHANGED <<chatInitialQuestion, lastReply, opened>>
    /\ UNCHANGED <<pageVars, pollerVars, exportVars, historyVars, formVars, submitVars>>

\* the effect body evaluated once more with the current props (the double
\* invocation of effects in development, a re-render)
RerunInitialEffect ==
    /\ ChatRendered /\ RoomInTranscript
    /\ runInitialEffect(chatInitialQuestion, chatOpen)
    /\ opened' = [opened EXCEPT !.sends = @ + initialRequests(chatInitialQuestion, chatOpen)]
    /\ UNCHANGED <<chatOpen, chatInitialQuestion, lastReply>>
    /\ UNCHANGED <<pageVars, pollerVars, exportVars, historyVars, formVars, submitVars>>

\* onChange of the input, which is disabled while loading
SetInput(t) ==
    /\ ChatRendered /\ chatOpen /\ ~loading
    /\ input' = t
    /\ UNCHANGED <<chatOpen, chatInitialQuestion, messages, loading, hasHandledInitial,
                   chatPending, lastSend, lastReply, initialSends, opened>>
    /\ UNCHANGED <<pageVars, pollerVars, exportVars, historyVars, formVars, submitVars>>

\* Enter in the input (disabled while loading): handleSend
handleSendEnter ==
    /\ ChatRendered /\ chatOpen /\ ~loading /\ RoomInTranscript
    /\ sendMessage(input, "input")
    /\ UNCHANGED <<chatOpen, chatInitialQuestion, hasHandledInitial, lastReply,
                   initialSends, opened>>
    /\ UNCHANGED <<pageVars, pollerVars, exportVars, historyVars, formVars, submitVars>>

\* the send button, disabled={!input.trim() || loading}: handleSend
handleSendClick ==
    /\ ChatRendered /\ chatOpen /\ ~loading /\ trim(input) # "" /\ RoomInTranscript
    /\ sendMessage(input, "input")
    /\ UNCHANGED <<chatOpen, chatInitialQuestion, hasHandledInitial, lastReply,
                   initialSends, opened>>
    /\ UNCHANGED <<pageVars, pollerVars, exportVars, historyVars, formVars, submitVars>>

\* the oldest chatWithAnalysis call settles: try or catch, then finally
ChatSettle(resp) ==
    /\ mounted
    /\ chatPending # << >>
    /\ chatPending' = Tail(chatPending)
    /\ messages' = WithReply(messages, chatWithAnalysis(resp))
    /\ loading' = FALSE
    /\ lastReply' = IF chatWithAnalysis(resp).tag = "return" THEN "answered" ELSE "failed"
    /\ UNCHANGED <<chatOpen, chatInitialQuestion, input, hasHandledInitial, lastSend,
                   initialSends, opened>>
    /\ UNCHANGED <<pageVars, pollerVars, exportVars, historyVars, formVars, submitVars>>

\* every question the payload may carry
AllQuestions == [i \in 1..MaxQuestions |-> QuestionNames[i]]

ChatInit ==
    /\ PageReadyWith(Some(AllQuestions))
    /\ PollerIdle /\ ExportIdle /\ ChatIdle /\ HistoryIdle /\ SubmitIdle

ChatNext ==
    \/ \E q \in {QuestionNames[i] : i \in 1..MaxQuestions} : handleQuestionClick(q)
    \/ OpenChatButton
    \/ CloseChat
    \/ RerunInitialEffect
    \/ \E t \in Texts : SetInput(t)
    \/ handleSendEnter
    \/ handleSendClick
    \/ \E resp \in ChatResponses : ChatSettle(resp)

SpecChat == ChatInit /\ [][ChatNext]_vars

\* ------------------------------------------------- chat and export together
\* the ready page with the chat and the export both in use; every capture
\* gives the same two-page report
SessionNext ==
    \/ ChatNext
    \/ handleExportPDF
    \/ ExportCapture(contentWidth, pdfHeight)
    \/ ExportFirstPage
    \/ ExportAddPage
    \/ ExportSave
    \/ ExportThrows

SpecSession == ChatInit /\ [][SessionNext]_vars

\* --------------------------------------------------------------- history
\* what the network gives back for one request to /api/history
HistoryResponses ==
    {[kind |-> "network", code |-> 0],
     [kind |-> "http", code |-> 500],
     [kind |-> "http", code |-> 200]}

\* getHistory, deleteHistoryItem, wipeHistory: each resolves when res.ok and
\* throws otherwise (fetch itself rejects on a network failure)
historyCallOk(resp) == resp.kind = "http" /\ ResOk(resp)

LoadFailedLog == "Failed to load history:"
DeleteFailedLog == "Delete failed:"
WipeFailedLog == "Wipe failed:"

HistoryRequest(op, job) == [op |-> op, job |-> job]
Settled(op, job, ok) == Some([op |-> op, job |-> job, ok |-> ok])

\* what HistoryPage renders; no branch of the JSX shows an error text
HistoryView ==
    [spinner    |-> hLoading,
     emptyState |-> ~hLoading /\ hJobs = {},
     rows       |-> IF hLoading THEN {} ELSE hJobs,
     rowSpinner |-> deleting,
     clearAll   |-> hJobs # {} /\ ~showWipeConfirm,
     confirm    |-> showWipeConfirm,
     errorText  |-> None]

\* useEffect(() => { fetchHistory(); }, []): setLoading(true), then the await
fetchHistory ==
    /\ ~hStarted
    /\ hStarted' = TRUE
    /\ hLoading' = TRUE
    /\ hPending' = hPending \cup {HistoryRequest("load", "")}
    /\ UNCHANGED <<hJobs, showWipeConfirm, deleting, hServer, hLast, consoleErrors>>
    /\ UNCHANGED <<pageVars, pollerVars, exportVars, chatVars, formVars, submitVars>>

\* fetchHistory after the await: try, catch, finally
HistoryLoadSettle(resp) ==
    /\ HistoryRequest("load", "") \in hPending
    /\ hPending' = hPending \ {HistoryRequest("load", "")}
    /\ IF historyCallOk(resp)
       THEN hJobs' = hServer /\ UNCHANGED consoleErrors
       ELSE consoleErrors' = consoleErrors \cup {LoadFailedLog} /\ UNCHANGED hJobs
    /\ hLoading' = FALSE
    /\ hLast' = Settled("load", "", historyCallOk(resp))
    /\ UNCHANGED <<showWipeConfirm, deleting, hStarted, hServer>>
    /\ UNCHANGED <<pageVars, pollerVars, exportVars, chatVars, formVars, submitVars>>

\* the delete button of a row (disabled while that row is being deleted)
handleDelete(j) ==
    /\ hStarted /\ ~hLoading /\ j \in hJobs
    /\ deleting # Some(j)
    /\ HistoryRequest("delete", j) \notin hPending
    /\ deleting' = Some(j)
    /\ hPending' = hPending \cup {HistoryRequest("delete", j)}
    /\ UNCHANGED <<hJobs, hLoading, showWipeConfirm, hStarted, hServer, hLast, consoleErrors>>
    /\ UNCHANGED <<pageVars, pollerVars, exportVars, chatVars, formVars, submitVars>>

\* handleDelete after the await
HistoryDeleteSettle(j, resp) ==
    /\ HistoryRequest("delete", j) \in hPending
    /\ hPending' = hPending \ {HistoryRequest("delete", j)}
    /\ IF historyCallOk(resp)
       THEN /\ hServer' = hServer \ {j}
            /\ hJobs' = hJobs \ {j}
            /\ UNCHANGED consoleErrors
       ELSE /\ consoleErrors' = consoleErrors \cup {DeleteFailedLog}
            /\ UNCHANGED <<hServer, hJobs>>
    /\ deleting' = None
    /\ hLast' = Settled("delete", j, historyCallOk(resp))
    /\ UNCHANGED <<hLoading, showWipeConfirm, hStarted>>
    /\ UNCHANGED <<pageVars, pollerVars, exportVars, chatVars, formVars, submitVars>>

\* the Clear All button
AskWipe ==
    /\ hStarted /\ hJobs # {} /\ ~showWipeConfirm
    /\ showWipeConfirm' = TRUE
    /\ UNCHANGED <<hJobs, hLoading, deleting, hStarted, hPending, hServer, hLast, consoleErrors>>
    /\ UNCHANGED <<pageVars, pollerVars, exportVars, chatVars, formVars, submitVars>>

\* the Cancel button of the confirmation
CancelWipe ==
    /\ hStarted /\ showWipeConfirm
    /\ showWipeConfirm' = FALSE
    /\ UNCHANGED <<hJobs, hLoading, deleting, hStarted, hPending, hServer, hLast, consoleErrors>>
    /\ UNCHANGED <<pageVars, pollerVars, exportVars, chatVars, formVars, submitVars>>

\* Yes, Delete All
handleWipeAll ==
    /\ hStarted /\ showWipeConfirm
    /\ HistoryRequest("wipe", "") \notin hPending
    /\ hPending' = hPending \cup {HistoryRequest("wipe", "")}
    /\ UNCHANGED <<hJobs, hLoading, showWipeConfirm, deleting, hStarted, hServer, hLast,
                   consoleErrors>>
    /\ UNCHANGED <<pageVars, pollerVars, exportVars, chatVars, formVars, submitVars>>

\* handleWipeAll after the await
HistoryWipeSettle(resp) ==
    /\ HistoryRequest("wipe", "") \in hPending
    /\ hPending' = hPending \ {HistoryRequest("wipe", "")}
    /\ IF historyCallOk(resp)
       THEN /\ hServer' = {}
            /\ hJobs' = {}
            /\ showWipeConfirm' = FALSE
            /\ UNCHANGED consoleErrors
       ELSE /\ consoleErrors' = consoleErrors \cup {WipeFailedLog}
            /\ UNCHANGED <<hServer, hJobs, showWipeConfirm>>
    /\ hLast' = Settled("wipe", "", historyCallOk(resp))
    /\ UNCHANGED <<hLoading, deleting, hStarted>>
    /\ UNCHANGED <<pageVars, pollerVars, exportVars, chatVars, formVars, submitVars>>

HistoryInit ==
    /\ PageMounted /\ PollerIdle /\ ExportIdle /\ ChatIdle /\ SubmitIdle
    /\ HistoryPageFresh
    /\ hServer \in SUBSET JobIds

HistoryNext ==
    \/ fetchHistory
    \/ \E resp \in HistoryResponses : HistoryLoadSettle(resp)
    \/ \E j \in JobIds : handleDelete(j)
    \/ \E j \in JobIds, resp \in HistoryResponses : HistoryDeleteSettle(j, resp)
    \/ AskWipe
    \/ CancelWipe
    \/ handleWipeAll
    \/ \E resp \in HistoryResponses : HistoryWipeSettle(resp)

SpecHistory == HistoryInit /\ [][HistoryNext]_vars

\* ---------------------------------------------------------------- submit
\* the texts tried in the two required fields: at and just above each
\* threshold, the research question also padded with a space
ResearchQuestions == {Text(c, p) : c \in {MinQuestionLength, MinQuestionLength + 1}, p \in {0, 1}}
ProductDescriptions == {Text(c, 0) : c \in {MinDescriptionLength, MinDescriptionLength + 1}}

\* text.length and text.trim().length
length(t) == t.core + t.pad
trimLength(t) == t.core

\* canSubmit with the lengths of the untrimmed texts
canSubmitUntrimmed(quant, qual, rq, pd) ==
    /\ quant > 0
    /\ qual > 0
    /\ length(rq) > MinQuestionLength
    /\ length(pd) > MinDescriptionLength

canSubmit(quant, qual, rq, pd) ==
    /\ quant > 0
    /\ qual > 0
    /\ trimLength(rq) > MinQuestionLength
    /\ trimLength(pd) > MinDescriptionLength

\* if (!canSubmit || submitState === "submitting") return;
analyzeRejected(can, st) == ~can \/ st = "submitting"

SubmitFailedMessage == "Failed to submit analysis"

\* what the network gives back for one POST /api/analyze
SubmitResponses ==
    {[kind |-> "network", code |-> 0, detail |-> ""],
     [kind |-> "http", code |-> 500, detail |-> ""],
     [kind |-> "http", code |-> 422, detail |-> "Unsupported file"],
     [kind |-> "http", code |-> 200, detail |-> ""]}

\* submitAnalysis: the returned job or a thrown error
submitAnalysis(resp) ==
    IF resp.kind = "network" THEN [tag |-> "throw", message |-> NetworkMessage]
    ELSE IF ~ResOk(resp)
         THEN [tag |-> "throw",
               message |-> IF resp.detail # "" THEN resp.detail ELSE SubmitFailedMessage]
         ELSE [tag |-> "return", message |-> ""]

\* FileUpload onFilesChange
SetFiles(quant, qual) ==
    /\ ~navigated
    /\ quantFiles' = quant
    /\ qualFiles' = qual
    /\ UNCHANGED <<researchQuestion, productDescription>>
    /\ UNCHANGED <<pageVars, pollerVars, exportVars, chatVars, historyVars, submitVars>>

\* ContextForm onChange
SetContext(rq, pd) ==
    /\ ~navigated
    /\ researchQuestion' = rq
    /\ productDescription' = pd
    /\ UNCHANGED <<quantFiles, qualFiles>>
    /\ UNCHANGED <<pageVars, pollerVars, exportVars, chatVars, historyVars, submitVars>>

\* handleAnalyze, up to the await
handleAnalyze ==
    LET can == canSubmit(quantFiles, qualFiles, researchQuestion, productDescription)
        rejected == analyzeRejected(can, submitState)
    IN /\ ~navigated
       /\ submitRequests < MaxSubmits
       /\ lastAnalyze' = Some([quant |-> quantFiles, qual |-> qualFiles,
                               rq |-> researchQuestion, pd |-> productDescription,
                               during |-> submitState, accepted |-> ~rejected])
       /\ IF rejected
          THEN UNCHANGED <<submitState, errorMsg, submitPending, submitRequests>>
          ELSE /\ submitState' = "submitting"
               /\ errorMsg' = None
               /\ submitPending' = submitPending + 1
               /\ submitRequests' = submitRequests + 1
       /\ UNCHANGED <<jobsCreated, navTimers, navigated>>
       /\ UNCHANGED <<pageVars, pollerVars, exportVars, chatVars, historyVars, formVars>>

\* handleAnalyze after the await: the backend has created a job for a request
\* it answers with 200
SubmitSettle(resp) ==
    LET out == submitAnalysis(resp)
    IN /\ submitPending > 0
       /\ submitPending' = submitPending - 1
       /\ IF out.tag = "return"
          THEN /\ jobsCreated' = jobsCreated + 1
               /\ IF navigated
                  THEN UNCHANGED submitState
                  ELSE submitState' = "success"
               /\ navTimers' = navTimers + 1
               /\ UNCHANGED errorMsg
          ELSE /\ IF navigated
                  THEN UNCHANGED <<submitState, errorMsg>>
                  ELSE submitState' = "error" /\ errorMsg' = Some(out.message)
               /\ UNCHANGED <<jobsCreated, navTimers>>
       /\ UNCHANGED <<submitRequests, navigated, lastAnalyze>>
       /\ UNCHANGED <<pageVars, pollerVars, exportVars, chatVars, historyVars, formVars>>

\* the 800 ms timer fires: router.push leaves the home page
NavTimerFire ==
    /\ navTimers > 0
    /\ navTimers' = navTimers - 1
    /\ navigated' = TRUE
    /\ UNCHANGED <<submitState, errorMsg, submitPending, submitRequests, jobsCreated, lastAnalyze>>
    /\ UNCHANGED <<pageVars, pollerVars, exportVars, chatVars, historyVars, formVars>>

SubmitInit == PageInit

SubmitNext ==
    \/ \E quant \in 0..1, qual \in 0..1 : SetFiles(quant, qual)
    \/ \E rq \in ResearchQuestions, pd \in ProductDescriptions : SetContext(rq, pd)
    \/ handleAnalyze
    \/ \E resp \in SubmitResponses : SubmitSettle(resp)
    \/ NavTimerFire

SpecSubmit == SubmitInit /\ [][SubmitNext]_vars

\* ================================================================ claims

\* the fetch that settled last was applied by a live observation of a mounted page
SettledLive ==
    /\ settled.effect # 0
    /\ mounted
    /\ ~effects[settled.effect].cancelled

\* C1: for any sequence of status responses for one job at most 60 status
\* fetches are issued; a 61st fetch never happens.
C1AtMostSixtyFetches ==
    /\ \A i \in EffectIds : effects[i].fetches <= MaxAttempts
    /\ pfrFetches <= MaxAttempts

\* C2: when a status fetch returns status failed the page moves to phase error
\* and the observation issues no further fetch (nothing fetching, no timer).
C2FailedEndsInError ==
    (SettledLive /\ settled.outcome = "failed")
        => /\ state = "error"
           /\ effects[settled.effect].pc = "stopped"

\* C3: once an observation is cancelled, no step of it issues a fetch or changes
\* phase, stored result, error or attempt counter, also when its fetch was in
\* flight at the cancellation and settles afterwards.
C3CancelledIsSilent ==
    [][\A i \in EffectIds :
          (effects[i].cancelled /\ effects'[i] # effects[i])
              => /\ effects'[i].fetches = effects[i].fetches
                 /\ UNCHANGED <<state, result, error, pollCount>>]_vars

\* C4: when a status fetch of an observation returns status completed, the page
\* (while mounted) moves to phase ready and stores exactly the returned result,
\* the observation is left with no fetch and no timer pending, and from then on
\* it never issues a fetch or schedules a timer again.
C4CompletedStops ==
    [][\A i \in EffectIds :
          /\ (/\ effects[i].pc = "fetching"
              /\ effects'[i].pc # "fetching"
              /\ settled'.effect = i
              /\ settled'.outcome = "completed")
                 => /\ effects'[i].pc = "stopped"
                    /\ mounted => /\ state' = "ready"
                                  /\ result' = Some(settled'.data)
                                  /\ settled'.data.status = "completed"
                                  /\ settled'.data.jobId = effects[i].jobId
          /\ effects[i].pc = "stopped"
                 => /\ effects'[i].pc = "stopped"
                    /\ effects'[i].fetches = effects[i].fetches]_vars

\* C4 witness: a second fetch returned completed and left the page ready with
\* the observation stopped.
C4Witness ==
    /\ SettledLive
    /\ settled.outcome = "completed"
    /\ effects[settled.effect].fetches = 2
    /\ effects[settled.effect].pc = "stopped"
    /\ state = "ready"
    /\ result = Some(settled.data)

\* C5: a fetch failure other than the transient not-ready signal ends polling at
\* once in the error outcome, for every error type, network errors that are not
\* ApiError instances included: in pollForResults the promise is rejected, on the
\* page the phase is error and nothing is pending.
C5FailureEndsPolling ==
    /\ pfrLast \in {"network", "apiError"} => pfrPc = "thrown"
    /\ (SettledLive /\ settled.outcome = "fatal")
          => /\ state = "error"
             /\ effects[settled.effect].pc = "stopped"

\* C6: a stored result always has status completed, phase ready implies such a
\* result is stored, and a response with status failed is never stored or
\* returned and leaves the page in an error condition.
C6OnlyCompletedResults ==
    /\ IsSome(result) => TheValue(result).status = "completed"
    /\ state = "ready" => IsSome(result)
    /\ IsSome(pfrValue) => TheValue(pfrValue).status = "completed"
    /\ pfrLast = "failed" => (pfrPc = "thrown" /\ pfrValue = None)
    /\ (SettledLive /\ settled.outcome = "failed") => state = "error"

\* C7: the composed report follows the visibility table for the perspective in
\* force: quant evidence and metrics for pm and cfo only, qual evidence and A/B
\* tests for pm and designer only, problem summary and actions always, and for
\* cfo the financial impact exactly when the result carries it.
C7VisibilityTable ==
    (state = "ready" /\ IsSome(result)) =>
        LET shown == Sections(state, result, perspective)
        IN /\ ("QuantEvidence" \in shown) = (perspective \in {"pm", "cfo"})
           /\ ("Metrics" \in shown) = (perspective \in {"pm", "cfo"})
           /\ ("QualEvidence" \in shown) = (perspective \in {"pm", "designer"})
           /\ ("ABTests" \in shown) = (perspective \in {"pm", "designer"})
           /\ "ProblemSummary" \in shown
           /\ "Actions" \in shown
           /\ perspective = "cfo" =>
                 ("FinancialImpact" \in shown) = IsSome(TheValue(result).financialImpact)

\* C7 witness: the cfo view of a completed result that carries a financial impact.
C7Witness ==
    /\ state = "ready" /\ IsSome(result)
    /\ perspective = "cfo"
    /\ IsSome(TheValue(result).financialImpact)
    /\ Report(state, result, perspective)
          = << "ProblemSummary", "FinancialImpact", "QuantEvidence", "Actions", "Metrics" >>

\* C8: under each of the three perspectives the financial impact is hidden when
\* the stored result has no financialImpact (or no result is stored); when the
\* field is present it is shown exactly for pm and cfo.
C8FinancialNeedsField ==
    \A p \in Perspectives :
        /\ (~IsSome(result) \/ ~IsSome(TheValue(result).financialImpact))
              => /\ ~showFinancial(result, p)
                 /\ "FinancialImpact" \notin Sections(state, result, p)
        /\ (IsSome(result) /\ IsSome(TheValue(result).financialImpact))
              => /\ showFinancial(result, p) = (p \in {"pm", "cfo"})
                 /\ (state = "ready" =>
                       ("FinancialImpact" \in Sections(state, result, p)) = (p \in {"pm", "cfo"}))

\* C8 witness: the cfo view of a completed result without financial impact.
C8Witness ==
    /\ state = "ready" /\ IsSome(result)
    /\ ~IsSome(TheValue(result).financialImpact)
    /\ perspective = "cfo"

\* C9: the suggested-questions flag is set, and the section is in the report of a
\* ready page, exactly when the stored result carries a non-empty
\* suggestedQuestions list; the perspective plays no part.
HasQuestions ==
    /\ IsSome(result)
    /\ IsSome(TheValue(result).suggestedQuestions)
    /\ TheValue(TheValue(result).suggestedQuestions) # << >>

C9QuestionsIffNonEmpty ==
    /\ showRecommendedQuestions(result) = HasQuestions
    /\ \A p \in Perspectives :
          ("RecommendedQuestions" \in Sections(state, result, p))
              = (state = "ready" /\ HasQuestions)

\* C9 witness: a ready result whose suggestedQuestions is present but empty,
\* seen as designer.
C9Witness ==
    /\ state = "ready" /\ IsSome(result)
    /\ TheValue(result).suggestedQuestions = Some(<< >>)
    /\ perspective = "designer"

\* C10: when the rendered image height is at most one usable page height (page
\* height minus both margins), the export never adds a second page and the
\* saved document has exactly one page with the image at the top margin.
FitsOnePage ==
    /\ imgProps # NoImage
    /\ imgRenderHeight(imgProps) <= InUnits(pdfHeight - 2 * margin, imgProps)

C10OnePageWhenItFits ==
    FitsOnePage =>
        /\ Len(pdfPages) <= 1
        /\ saved => pdfPages = << InUnits(margin, imgProps) >>

\* C10 witness: a saved export of an image exactly one usable page height tall.
C10Witness ==
    /\ saved /\ exportPc = "idle"
    /\ imgProps # NoImage
    /\ imgRenderHeight(imgProps) = InUnits(pdfHeight - 2 * margin, imgProps)
    /\ Len(pdfPages) = 1

\* C11: an image whose rendered height is 2.5 usable page heights is exported
\* on exactly 3 pages, and the vertical offset of the image decreases by the
\* same step, one page height, from page 1 to page 2 and from page 2 to page 3.
TwoAndAHalfPages ==
    /\ imgProps # NoImage
    /\ 2 * imgRenderHeight(imgProps) = 5 * InUnits(pdfHeight - 2 * margin, imgProps)

C11ThreePagesEqualSteps ==
    (saved /\ TwoAndAHalfPages) =>
        /\ Len(pdfPages) = 3
        /\ pdfPages[1] - pdfPages[2] = pdfPages[2] - pdfPages[3]
        /\ pdfPages[1] - pdfPages[2] \in {InUnits(pdfHeight, imgProps),
                                         InUnits(pdfHeight - 2 * margin, imgProps)}

\* C12: an export that ends without saving has thrown: the user is alerted, no
\* file is saved, and the exporting flag is false again with the handler back
\* at its start, so that a new export can be started. An export never both
\* saves and alerts.
C12FailedExportAlerts ==
    [][ (exportPc # "idle" /\ exportPc' = "idle") =>
            /\ ~isExporting'
            /\ saved' # alerted'
            /\ (~saved') => (alerted' /\ pdfPages' = pdfPages) ]_vars

\* C12 witness: page composition threw after a second page had been added.
C12Witness ==
    /\ alerted /\ ~saved /\ ~isExporting /\ exportPc = "idle"
    /\ Len(pdfPages) >= 2

\* C13: sendMessage called with an empty or whitespace-only text changes
\* nothing: the transcript, the in-flight flag and the input keep their values
\* and no request is issued.
C13BlankSendChangesNothing ==
    [][ (lastSend' # lastSend /\ IsSome(lastSend') /\ trim(TheValue(lastSend').text) = "")
            => UNCHANGED <<messages, loading, input, chatPending>> ]_vars

\* C13 witness: Enter was pressed on a whitespace-only input of a fresh chat.
C13Witness ==
    /\ lastSend = Some([text |-> " ", from |-> "input", accepted |-> FALSE])
    /\ input = " "
    /\ messages = << IntroMessage >>
    /\ ~loading /\ chatPending = << >>

\* C14: at most one chat request is in flight, the in-flight flag is set exactly
\* while one is, and a send made while a request is in flight (here the
\* injected initial question; the input and button are disabled) appends
\* nothing and issues no request.
C14OneRequestInFlight ==
    /\ [](Len(chatPending) <= 1 /\ (loading <=> chatPending # << >>))
    /\ [][ (loading /\ lastSend' # lastSend)
              => UNCHANGED <<messages, input, loading, chatPending>> ]_vars

\* C14 witness: a suggested question was injected while a typed question was
\* still in flight, and was rejected.
C14Witness ==
    /\ loading /\ Len(chatPending) = 1
    /\ IsSome(lastSend)
    /\ TheValue(lastSend).from = "initial"
    /\ ~TheValue(lastSend).accepted

\* C15: one ChatSidebar issues at most one request for an initial question,
\* however often the effect is evaluated.
C15InitialQuestionAtMostOnce == initialSends <= 1

\* C15 witness: the chat was closed and opened again with the same suggested
\* question, which had been sent the first time and was not sent again.
C15Witness ==
    /\ initialSends = 1
    /\ chatOpen /\ chatInitialQuestion = Some("q1")
    /\ opened = [by |-> "question", sends |-> 0]
    /\ Len(messages) >= 3 /\ messages[2] = [role |-> "user", content |-> "q1"]

\* C16: each time the chat is opened by selecting a suggested question, that
\* question is sent exactly once: one request is issued for it, neither zero
\* nor several.
C16QuestionSentOncePerOpening == (opened.by = "question") => (opened.sends = 1)

\* C17: when a chat request fails, exactly one assistant message, the fixed
\* fallback, is appended; the request is not retried (nothing is in flight
\* afterwards) and the in-flight flag is cleared, so that later sends are
\* accepted.
ChatFailedStep == Len(chatPending') < Len(chatPending) /\ lastReply' = "failed"

C17FailureAppendsFallback ==
    [][ ChatFailedStep =>
            /\ messages' = Append(messages, [role |-> "assistant", content |-> FallbackContent])
            /\ ~loading'
            /\ chatPending' = << >> ]_vars

\* C17 witness: the first question failed and a later question was accepted.
C17Witness ==
    /\ Len(messages) >= 4
    /\ messages[3] = [role |-> "assistant", content |-> FallbackContent]
    /\ messages[4].role = "user"

\* C18: the transcript always starts with the intro assistant message, and
\* every step leaves the old transcript as a prefix of the new one, closing
\* and re-opening the sidebar included.
IsPrefixOf(a, b) == Len(a) <= Len(b) /\ SubSeq(b, 1, Len(a)) = a

C18TranscriptAppendOnly ==
    /\ [](messages[1] = IntroMessage)
    /\ [][IsPrefixOf(messages, messages')]_vars

\* C18 witness: a transcript of two exchanges, in a chat closed and opened
\* again with the button.
C18Witness ==
    /\ Len(messages) >= 5
    /\ chatOpen /\ opened.by = "button"
    /\ hasHandledInitial

\* C19: a failed export and a failed chat request leave the page-level state
\* (phase, result, error, poll counter, perspective) unchanged; the failed
\* chat request leaves the export state unchanged and the failed export the
\* chat transcript.
ExportFailedStep == alerted' /\ ~alerted

C19FailuresStayLocal ==
    [][ /\ ExportFailedStep =>
              UNCHANGED <<state, result, error, pollCount, perspective, messages>>
        /\ ChatFailedStep =>
              UNCHANGED <<state, result, error, pollCount, perspective, exportVars>> ]_vars

\* C19 witness: an export failed and a chat request failed on the same page,
\* which is still in phase ready.
C19Witness ==
    /\ alerted /\ ~saved
    /\ lastReply = "failed"
    /\ state = "ready" /\ IsSome(result)

\* C20: every operation that fails produces a user-visible signal; for the
\* history page: after a history load, a delete or a wipe has failed, the page
\* shows an error text.
C20HistoryFailureIsVisible ==
    (IsSome(hLast) /\ ~TheValue(hLast).ok) => IsSome(HistoryView.errorText)

\* C21: the perspective is pm at mount, and a change of perspective issues no
\* status fetch, does not restart polling and changes none of phase, stored
\* result and attempt counter; it changes only which sections are composed.
C21PerspectiveOnlyRecomposes ==
    /\ [](cur = 0 => perspective = "pm")
    /\ [][ (perspective' # perspective) =>
              /\ UNCHANGED <<jobId, state, result, error, pollCount, effects, cur>>
              /\ Sections(state', result', perspective') # Sections(state, result, perspective)
         ]_vars

\* C21 witness: the cfo view of a result that took more than one fetch.
C21Witness ==
    /\ perspective = "cfo"
    /\ state = "ready" /\ IsSome(result)
    /\ effects[1].pc = "stopped" /\ effects[1].fetches >= 2

\* C22: the attempt counter never decreases while a job is polled, and polling
\* of each job id starts at zero: when the view switches to a different job id
\* the counter restarts from zero.
C22CounterPerJob ==
    [][ /\ (jobId' = jobId) => (pollCount' >= pollCount)
        /\ (jobId' # jobId) => (pollCount' = 0) ]_vars

\* C24: no two status fetches for the same job are in flight at the same time,
\* under every interleaving of effect start, cleanup and re-run, timer firing
\* and fetch resolution.
C24OneFetchPerJob ==
    \A i \in EffectIds, k \in EffectIds :
        (i # k /\ effects[i].pc = "fetching" /\ effects[k].pc = "fetching")
            => effects[i].jobId # effects[k].jobId

\* C25: when a fetch of a live observation returns pending or processing, or
\* fails with the not-ready signal, the phase stays loading, the attempt
\* counter increases by exactly one and the fixed-delay timer is set; when the
\* timer fires exactly one further fetch is issued.
NotReadyOutcomes == {"pending", "processing", "transient"}

C25NotReadyPollsAgain ==
    /\ [][ (/\ effects[1].pc = "fetching" /\ effects'[1].pc # "fetching"
            /\ ~effects'[1].cancelled
            /\ settled'.outcome \in NotReadyOutcomes)
              => /\ state = "loading" /\ state' = "loading"
                 /\ pollCount' = pollCount + 1
                 /\ effects'[1].pc = "timer"
                 /\ effects'[1].fetches = effects[1].fetches ]_vars
    /\ [][ (/\ effects[1].pc = "timer" /\ effects'[1].pc # "timer"
            /\ ~effects'[1].cancelled)
              => /\ effects'[1].pc = "fetching"
                 /\ effects'[1].fetches = effects[1].fetches + 1
                 /\ UNCHANGED <<state, pollCount>> ]_vars

\* the same for one call of pollForResults, whose not-ready signal is a body
\* without a terminal status (HTTP 202 included)
C25PollerNotReadyPollsAgain ==
    /\ [][ (/\ pfrPc = "fetching" /\ pfrPc' # "fetching"
            /\ pfrLast' \in {"pending", "processing", "undefined"})
              => /\ pfrPc' = "sleeping"
                 /\ pfrProgress' = pfrProgress + 1
                 /\ UNCHANGED <<attempt, pfrFetches>> ]_vars
    /\ [][ (pfrPc = "sleeping" /\ pfrPc' # "sleeping")
              => /\ attempt' = attempt + 1
                 /\ pfrFetches' = pfrFetches + (IF attempt' < MaxAttempts THEN 1 ELSE 0) ]_vars

\* C25 witness: the second fetch failed with the not-ready signal and the
\* timer for the third is set.
C25Witness ==
    /\ state = "loading" /\ mounted
    /\ settled.outcome = "transient"
    /\ effects[1].pc = "timer" /\ effects[1].fetches = 2
    /\ pollCount = 2

\* C26: terminal phases are absorbing within one results view: once the
\* observation of the viewed job has put the page in phase ready or error,
\* neither the phase nor the stored result changes while that job is viewed;
\* and the report is composed only in phase ready with a result present.
TerminalInView ==
    /\ mounted /\ cur >= 1
    /\ settled.effect = cur
    /\ \/ state = "ready" /\ settled.outcome = "completed"
       \/ state = "error" /\ settled.outcome = "fatal"

C26TerminalPhasesAbsorb ==
    /\ [](\A p \in Perspectives :
              Sections(state, result, p) # {} => (state = "ready" /\ IsSome(result)))
    /\ [][ (TerminalInView /\ jobId' = jobId) => UNCHANGED <<state, result>> ]_vars

\* C27: for every positive rendered image height the pages of the saved
\* document together show the whole image: a page whose image offset is p
\* shows the image rows from -p to -p + page height, and every row from 0 to
\* the rendered height lies on at least one page. The pages are added with
\* decreasing offsets, so the rows are all shown iff the first page starts at
\* or above row 0, no two consecutive pages leave a gap, and the last page
\* ends at or below the last row.
PagesShowWholeImage ==
    /\ pdfPages # << >>
    /\ 0 - pdfPages[1] <= 0
    /\ \A k \in 1..(Len(pdfPages) - 1) :
          0 - pdfPages[k + 1] <= 0 - pdfPages[k] + InUnits(pdfHeight, imgProps)
    /\ 0 - pdfPages[Len(pdfPages)] + InUnits(pdfHeight, imgProps) >= imgRenderHeight(imgProps)

C27NoStripLost == saved => PagesShowWholeImage

\* C28: for every positive rendered height H the pagination loop terminates
\* with exactly 1 + ceil(max(0, H - (P - 2m)) / P) pages, P the page height
\* and m the margin, and the remaining height strictly decreases on every
\* iteration. Termination is the variant: an iteration needs a positive
\* remaining height and lowers it, and the page count never passes its final value.
CeilDiv(a, b) == (a + b - 1) \div b

ExpectedPages ==
    LET over == imgRenderHeight(imgProps) - InUnits(pdfHeight - 2 * margin, imgProps)
    IN 1 + CeilDiv(IF over > 0 THEN over ELSE 0, InUnits(pdfHeight, imgProps))

C28PageCount ==
    /\ []((exportPc = "loop" \/ saved) => Len(pdfPages) <= ExpectedPages)
    /\ [](saved => Len(pdfPages) = ExpectedPages)
    /\ [][ (exportPc = "loop" /\ pdfPages' # pdfPages)
              => (heightLeft > 0 /\ heightLeft' < heightLeft) ]_vars

\* C28 witness: a saved document of five pages whose last page was added for
\* the last millimetre.
C28Witness ==
    /\ saved /\ Len(pdfPages) = 5
    /\ heightLeft + InUnits(pdfHeight, imgProps) = InUnits(1, imgProps)

\* C29: the roles of the transcript alternate, starting with the assistant
\* introduction (assistant, user, assistant, ...), and the transcript ends
\* with a user message exactly when a chat request is in flight.
C29RolesAlternate ==
    /\ \A k \in 1..Len(messages) :
          messages[k].role = (IF k % 2 = 1 THEN "assistant" ELSE "user")
    /\ (messages[Len(messages)].role = "user") <=> (chatPending # << >>)

\* C29 witness: the second question is in flight after the first one failed.
C29Witness ==
    /\ Len(messages) = 4
    /\ messages[3].content = FallbackContent
    /\ loading /\ Len(chatPending) = 1

\* C23: a submit request is issued only when at least one quantitative and one
\* qualitative file are selected, the trimmed research question is longer
\* than 10 characters and the trimmed product description longer than 5;
\* otherwise handleAnalyze issues no request and leaves the submit state
\* unchanged.
FormComplete(a) ==
    /\ a.quant >= 1 /\ a.qual >= 1
    /\ a.rq.core >= 11
    /\ a.pd.core >= 6

C23SubmitNeedsCompleteForm ==
    [][ (lastAnalyze' # lastAnalyze /\ IsSome(lastAnalyze'))
            => /\ TheValue(lastAnalyze').accepted => FormComplete(TheValue(lastAnalyze'))
               /\ (~FormComplete(TheValue(lastAnalyze')))
                     => UNCHANGED <<submitState, errorMsg, submitPending, submitRequests,
                                    jobsCreated>> ]_vars

\* C23 witness: handleAnalyze ran with both files and a research question of
\* 10 characters and a trailing space, and issued nothing.
C23Witness ==
    /\ IsSome(lastAnalyze)
    /\ TheValue(lastAnalyze).quant = 1 /\ TheValue(lastAnalyze).qual = 1
    /\ TheValue(lastAnalyze).rq = Text(10, 1)
    /\ TheValue(lastAnalyze).pd = Text(6, 0)
    /\ ~TheValue(lastAnalyze).accepted
    /\ submitState = "idle" /\ submitRequests = 0

\* C30: one submission issues at most one submitAnalysis request: while a
\* request is in flight, and after it has succeeded until the delayed
\* navigation has happened, a click on the analyze button issues no request
\* and no second job is created.
C30OneRequestPerSubmission ==
    /\ [][ (submitState \in {"submitting", "success"} /\ ~navigated)
              => submitRequests' = submitRequests ]_vars
    /\ [](jobsCreated <= 1)

====
